---- MODULE Spec2Model ----
(***************************************************************************)
(* Model of the imperat step runner: the type-indexed dependency store,    *)
(* step registration on the builder and on group builders, and the         *)
(* execution of the default group and the explicit groups.                 *)
(***************************************************************************)
EXTENDS Integers, Sequences, FiniteSets, TLC

\* ------------------------------------------------------------------ bounds
\* Spec: number of add_dep calls made on one builder
MaxDeps == 2
\* Spec: number of add_step calls made on one builder, group builders included
MaxSteps == 2
\* Spec: number of new_group calls made on one builder
MaxGroups == 1
\* Spec: number of before_step / after_step calls, group builders included
MaxCallbacks == 1
\* SpecStore: number of add_dep and of add_step calls made on one builder
StoreDeps == 3
StoreSteps == 2
\* SpecExec: number of add_step and of new_group calls made on one builder
ExecSteps == 3
ExecGroups == 1
\* SpecOrder: number of add_step and of new_group calls made on one builder
OrderSteps == 2
OrderGroups == 2
\* SpecCallbacks: number of add_step, new_group and before_step / after_step calls
CbSteps == 1
CbGroups == 1
CbCallbacks == 2
\* SpecDefault: number of add_step and before_step / after_step calls on the builder
DefSteps == 2
DefCallbacks == 2
\* SpecParallel: number of add_step, new_group and before_step / after_step calls
ParSteps == 2
ParGroups == 1
ParCallbacks == 1
\* SpecTermination: number of add_step and new_group calls
TermSteps == 2
TermGroups == 1
\* SpecPropagate: number of add_step, new_group and before_step / after_step calls
PropSteps == 1
PropGroups == 1
PropCallbacks == 2
\* SpecErrors: number of add_dep, add_step and new_group calls made on one builder
ErrDeps == 2
ErrSteps == 1
ErrGroups == 1
\* SpecOutcome: number of add_step calls made on one builder
OutcomeSteps == 2
\* SpecTypeMap: number of distinct values per type, and the longest argument tuple
MaxVal == 2
MaxArity == 2

\* ------------------------------------------------------- input universes
\* type identities of the values handed to add_dep
TypeIds == {"Database", "Config"}
\* step names
Names == {"one", "two"}
\* argument tuples a registered function may declare (FromTypeMap tuples)
ArgLists == {<< >>, <<"Database">>, <<"Database", "Config">>}
\* the output type O of the builder
OutTypes == {"bool", "result"}
\* SpecOutcome: the output types of impl_into_step_outcome!, steps that cannot fail
NeverFail == {"()", "usize", "isize", "char", "&str", "String", "u8", "i8", "i16", "u16",
              "i32", "u32", "i64", "u64", "i128", "u128", "f32", "f64"}
\* SpecOutcome: the output types that are errors themselves
AlwaysFail == {"io::Error", "Box<dyn Error>"}
\* SpecOutcome: every output type with an IntoStepOutcome impl
AllOutTypes == OutTypes \cup NeverFail \cup AlwaysFail
\* SpecTypeMap: the type identities bound straight into a TypeMap: the
\* dependency types above and the payload type of one of them, which is a
\* type of its own
MapTypeIds == TypeIds \cup {"Arc<Database>"}
\* SpecTypeMap: the values of one type
MapVals == 1..MaxVal
\* SpecTypeMap: every tuple of at most MaxArity dependency types
TupleLists == UNION {[1..n -> TypeIds] : n \in 0..MaxArity}

\* --------------------------------------------------------------- options
\* Option<T> is a set with at most one element
None == {}
Some(x) == {x}
Unwrap(o) == CHOOSE x \in o : TRUE

\* -------------------------------------------------------------- outcomes
\* some values of the types that are not enums, written as text
ValuesOf(ty) ==
    CASE ty = "()" -> {"()"}
      [] ty = "char" -> {"a"}
      [] ty \in {"&str", "String"} -> {"", "failed"}
      [] ty \in {"usize", "u8", "u16", "u32", "u64", "u128"} -> {"0", "1"}
      [] ty \in {"isize", "i8", "i16", "i32", "i64", "i128"} -> {"-1", "0"}
      [] ty \in {"f32", "f64"} -> {"0.0", "NaN"}
      [] ty = "io::Error" -> {"NotFound"}
      [] ty = "Box<dyn Error>" -> {"TestOne"}

\* values of the output type: bool, or Result<(), E> with a test error E
OutcomesOf(ty) ==
    IF ty = "bool"
    THEN {[ty |-> "bool", tag |-> "true", val |-> "-"],
          [ty |-> "bool", tag |-> "false", val |-> "-"]}
    ELSE IF ty \in NeverFail \cup AlwaysFail
    THEN {[ty |-> ty, tag |-> "value", val |-> v] : v \in ValuesOf(ty)}
    ELSE {[ty |-> "result", tag |-> "Ok", val |-> "unit"],
          [ty |-> "result", tag |-> "Err", val |-> "TestOne"]}

\* Box<dyn Error + Send + Sync> holding the converted error value
BoxError(e) == [dyn |-> e]

\* variant of success: an empty string and a zero count as failures
success_falsy(r) ==
    CASE r.ty = "bool" -> r.tag = "true"
      [] r.ty = "result" -> r.tag = "Ok"
      [] r.ty \in NeverFail -> r.val \notin {"", "0", "0.0"}
      [] r.ty \in AlwaysFail -> FALSE

\* IntoStepOutcome::success
success(r) ==
    CASE r.ty = "bool" -> r.tag = "true"
      [] r.ty = "result" -> r.tag = "Ok"
      [] r.ty \in NeverFail -> TRUE
      [] r.ty \in AlwaysFail -> FALSE

\* IntoStepOutcome::error
error(r) ==
    CASE r.ty = "bool" -> None
      [] r.ty = "result" -> IF r.tag = "Err" THEN Some(BoxError(r.val)) ELSE None
      [] r.ty \in NeverFail -> None
      [] r.ty \in AlwaysFail -> Some(BoxError(r.val))

\* ---------------------------------------------------------------- errors
DepResolution(name) == [kind |-> "DepResolution", arg |-> name, cause |-> None]
AddDep(ty) == [kind |-> "AddDep", arg |-> ty, cause |-> None]
StepErr(name, e) == [kind |-> "Step", arg |-> name, cause |-> Some(e)]
UnknownStep(name) == [kind |-> "UnknownStep", arg |-> name, cause |-> None]
GroupErr(name, e) == [kind |-> "Group", arg |-> name, cause |-> Some(e)]

\* --------------------------------------------------------------- TypeMap
\* a boxed value keeps its own type identity
Boxed(ty, v) == [ty |-> ty, v |-> v]
EmptyMap == [k \in {} |-> Boxed("Database", 0)]

\* variant of Insert: a key that is present keeps its value
Insert_keep(m, k, v) ==
    [x \in (DOMAIN m) \cup {k} |-> IF x \in DOMAIN m THEN m[x] ELSE v]

\* HashMap::insert
Insert(m, k, v) == [x \in (DOMAIN m) \cup {k} |-> IF x = k THEN v ELSE m[x]]

\* TypeMap::get::<T>: lookup under TypeId::of::<T>() and downcast_ref
get(bindings, ty) ==
    IF ty \in DOMAIN bindings /\ bindings[ty].ty = ty
    THEN Some(bindings[ty])
    ELSE None

\* variant of bind: the map is emptied before the insert
bind_clearing(bindings, val) == Insert(EmptyMap, val.ty, val)

\* TypeMap::bind: the bindings after insert under val.type_id()
bind(bindings, val) == Insert(bindings, val.ty, val)

\* variant of bindPrev: nothing is returned
bindPrev_nothing(bindings, val) == None

\* TypeMap::bind: the returned previous value, downcast to T
bindPrev(bindings, val) ==
    IF val.ty \in DOMAIN bindings /\ bindings[val.ty].ty = val.ty
    THEN Some(bindings[val.ty])
    ELSE None

\* variant of retrieve_from_map: a value is made up for a type that is not bound
retrieve_from_map_default(bindings, ty) ==
    IF get(bindings, ty) = None THEN Some(Boxed(ty, 0)) ELSE get(bindings, ty)

\* Dep<T>::retrieve_from_map and the derived impl: tm.get::<Self>().cloned()
retrieve_from_map(bindings, ty) == get(bindings, ty)

\* variant of retrieve_tuple: an element that does not resolve is left out
RECURSIVE retrieve_tuple_partial(_, _)
retrieve_tuple_partial(bindings, tys) ==
    IF tys = << >>
    THEN Some(<< >>)
    ELSE LET h == retrieve_from_map(bindings, Head(tys))
             t == retrieve_tuple_partial(bindings, Tail(tys))
         IN IF h = None THEN t ELSE Some(<<Unwrap(h)>> \o Unwrap(t))

\* the tuple impls: every element in declared order, `?` on the first None
RECURSIVE retrieve_tuple(_, _)
retrieve_tuple(bindings, tys) ==
    IF tys = << >>
    THEN Some(<< >>)
    ELSE LET h == retrieve_from_map(bindings, Head(tys))
         IN IF h = None
            THEN None
            ELSE LET t == retrieve_tuple(bindings, Tail(tys))
                 IN IF t = None
                    THEN None
                    ELSE Some(<<Unwrap(h)>> \o Unwrap(t))

\* ---------------------------------------------------------------- groups
\* Group::new with GroupOptions::default
NewGroup == [steps |-> << >>, parallel |-> FALSE, tolerate_failure |-> FALSE,
             callbacks |-> << >>]

\* a resolved step: its name and the arguments its future was created with
Step(name, args) == [name |-> name, args |-> args]

\* variant of add_step_group: the arguments are looked up in an empty store
add_step_group_stale(g, bindings, name, tys) ==
    LET args == retrieve_tuple(EmptyMap, tys)
    IN IF args = None
       THEN g
       ELSE [g EXCEPT !.steps = Append(@, Step(name, Unwrap(args)))]

\* Group::add_step, the group afterwards
add_step_group(g, bindings, name, tys) ==
    LET args == retrieve_tuple(bindings, tys)
    IN IF args = None
       THEN g
       ELSE [g EXCEPT !.steps = Append(@, Step(name, Unwrap(args)))]

\* variant of add_step_errors: the dropped step leaves no error behind
add_step_errors_unrecorded(errs, bindings, name, tys) == errs

\* Group::add_step, the shared error list afterwards (Group::add_error)
add_step_errors(errs, bindings, name, tys) ==
    IF retrieve_tuple(bindings, tys) = None
    THEN Append(errs, DepResolution(name))
    ELSE errs

\* Group::add_step, the eprintln! of the name of a step that will not run
add_step_stderr(out, bindings, name, tys) ==
    IF retrieve_tuple(bindings, tys) = None
    THEN Append(out, name)
    ELSE out

\* Group::add_callback
add_callback(g, cb) == [g EXCEPT !.callbacks = Append(@, cb)]

\* variant of add_dep_tm: the second value of a type replaces the first
add_dep_tm_rebind(bindings, val) == bind(bindings, val)

\* variant of add_dep_tm: a second value of a bound type empties the store
add_dep_tm_forget(bindings, val) ==
    IF get(bindings, val.ty) # None
    THEN EmptyMap
    ELSE bind(bindings, val)

\* ImperativeStepBuilder::add_dep, the bindings afterwards
add_dep_tm(bindings, val) ==
    IF get(bindings, val.ty) # None
    THEN bindings
    ELSE bind(bindings, val)

\* variant of add_dep_errors: the error goes to the front of the list
add_dep_errors_front(errs, bindings, val) ==
    IF get(bindings, val.ty) # None
    THEN <<AddDep(val.ty)>> \o errs
    ELSE errs

\* ImperativeStepBuilder::add_dep, the shared error list afterwards
add_dep_errors(errs, bindings, val) ==
    IF get(bindings, val.ty) # None
    THEN Append(errs, AddDep(val.ty))
    ELSE errs

\* GroupBuilder::tolerate_failure
tolerate_failure(g) == [g EXCEPT !.tolerate_failure = TRUE]

\* GroupBuilder::parallel
parallel(g) == tolerate_failure([g EXCEPT !.parallel = TRUE])

\* ------------------------------------------------------------- execution
\* Vec::pop on the accumulated errors, at the head of execute
pop(errs) == IF errs = << >> THEN None ELSE Some(errs[Len(errs)])

\* variant of propagate_callbacks: a group that gets the builder's callbacks
\* is also made to tolerate failure
propagate_callbacks_tolerant(g, cbs) ==
    [g EXCEPT !.callbacks = @ \o cbs, !.tolerate_failure = TRUE]

\* variant of propagate_callbacks: the builder's callbacks go in front
propagate_callbacks_first(g, cbs) == [g EXCEPT !.callbacks = cbs \o @]

\* execute: the builder's callbacks are added to one explicit group
propagate_callbacks(g, cbs) == [g EXCEPT !.callbacks = @ \o cbs]

\* variant of execution_order: the default group runs after the explicit groups
execution_order_default_last(d, gs) ==
    [i \in 1..Len(gs) |-> propagate_callbacks(gs[i], d.callbacks)] \o <<d>>

\* variant of execution_order: the explicit groups run with their own
\* callbacks only
execution_order_unpropagated(d, gs) == <<d>> \o gs

\* execute: the groups in the order they will run
execution_order(d, gs) ==
    <<d>> \o [i \in 1..Len(gs) |-> propagate_callbacks(gs[i], d.callbacks)]

NoOutcome == [ty |-> "none", tag |-> "-", val |-> "-"]
NoOutputs == [k \in {} |-> NoOutcome]

\* events recorded when callbacks run and computations start and complete:
\* step s of the g-th executed group, callback id cb, outcome r
Ev(kind, g, s, cb, r) == [ev |-> kind, g |-> g, s |-> s, cb |-> cb, r |-> r]

OfKind(cbs, kind) == SelectSeq(cbs, LAMBDA c : c.kind = kind)

\* variant of exec_step_begin: the callbacks are walked from the back
exec_step_begin_reversed(cbs, g, s) ==
    LET bs == OfKind(cbs, "BeforeStep")
    IN [i \in 1..Len(bs) |-> Ev("before", g, s, bs[Len(bs) + 1 - i].id, NoOutcome)]
       \o <<Ev("start", g, s, 0, NoOutcome)>>

\* exec_step up to the await: every BeforeStep callback in list order, then
\* the step's future is polled for the first time
exec_step_begin(cbs, g, s) ==
    LET bs == OfKind(cbs, "BeforeStep")
    IN [i \in 1..Len(bs) |-> Ev("before", g, s, bs[i].id, NoOutcome)]
       \o <<Ev("start", g, s, 0, NoOutcome)>>

\* variant of exec_step_end: the AfterStep callbacks are skipped for an
\* outcome that is no success
exec_step_end_success_only(cbs, g, s, r) ==
    LET as == OfKind(cbs, "AfterStep")
    IN <<Ev("end", g, s, 0, r)>>
       \o (IF success(r) THEN [i \in 1..Len(as) |-> Ev("after", g, s, as[i].id, r)] ELSE << >>)

\* variant of exec_step_end: the AfterStep callbacks fire one step late, after
\* the completion of the following step
exec_step_end_late(cbs, g, s, r) ==
    LET as == OfKind(cbs, "AfterStep")
    IN <<Ev("end", g, s, 0, r)>>
       \o (IF s > 1 THEN [i \in 1..Len(as) |-> Ev("after", g, s - 1, as[i].id, r)] ELSE << >>)

\* exec_step after the await: the future is complete with r, then every
\* AfterStep callback in list order gets the name and r
exec_step_end(cbs, g, s, r) ==
    LET as == OfKind(cbs, "AfterStep")
    IN <<Ev("end", g, s, 0, r)>>
       \o [i \in 1..Len(as) |-> Ev("after", g, s, as[i].id, r)]

\* variant of halts: the success test is inverted
halts_inverted(g, r) == ~g.tolerate_failure /\ success(r)

\* variant of halts: a failing outcome is inserted like any other
halts_never(g, r) == FALSE

\* variant of halts: tolerate_failure is not consulted
halts_strict(g, r) == ~success(r)

\* Group::execute, sequential loop: does outcome r return from the loop
halts(g, r) == ~g.tolerate_failure /\ ~success(r)

\* variant of step_error: a cause is wrapped as a Group error
step_error_group(name, r) ==
    IF error(r) # None THEN GroupErr(name, Unwrap(error(r))) ELSE UnknownStep(name)

\* variant of step_error: the cause is not looked at
step_error_unknown(name, r) == UnknownStep(name)

\* Group::execute, sequential loop: the error returned for a failing outcome
step_error(name, r) ==
    IF error(r) # None
    THEN StepErr(name, Unwrap(error(r)))
    ELSE UnknownStep(name)

\* collecting (name, outcome) pairs into a HashMap, in sequence order
RECURSIVE collect(_)
collect(pairs) ==
    IF pairs = << >>
    THEN NoOutputs
    ELSE LET n == Len(pairs)
         IN Insert(collect(SubSeq(pairs, 1, n - 1)), pairs[n][1], pairs[n][2])

\* variant of Extend: an entry that is present is kept
Extend_keep(m1, m2) ==
    [x \in (DOMAIN m1) \cup (DOMAIN m2) |-> IF x \in DOMAIN m1 THEN m1[x] ELSE m2[x]]

\* HashMap::extend with another map's entries
Extend(m1, m2) ==
    [x \in (DOMAIN m1) \cup (DOMAIN m2) |-> IF x \in DOMAIN m2 THEN m2[x] ELSE m1[x]]

\* variant of flatten_collect: only the last group's map is returned
flatten_collect_last(maps) ==
    IF maps = << >> THEN NoOutputs ELSE maps[Len(maps)]

\* execute: outputs.into_iter().flatten().collect()
RECURSIVE flatten_collect(_)
flatten_collect(maps) ==
    IF maps = << >>
    THEN NoOutputs
    ELSE LET n == Len(maps)
         IN Extend(flatten_collect(SubSeq(maps, 1, n - 1)), maps[n])

NoError == [kind |-> "none", arg |-> "-", cause |-> None]
Pending == [tag |-> "pending", map |-> NoOutputs, err |-> NoError]
Ok(m) == [tag |-> "Ok", map |-> m, err |-> NoError]
Err(e) == [tag |-> "Err", map |-> NoOutputs, err |-> e]

\* variant of group_error: the outcomes inserted so far come back with the error
group_error_partial(name, r, outp) == [Err(step_error(name, r)) EXCEPT !.map = outp]

\* Group::execute, sequential loop: the early return for a failing outcome;
\* the local HashMap outp is dropped
group_error(name, r, outp) == Err(step_error(name, r))

\* variant of execute_continues: a group's error does not end the loop
execute_continues_always(res) == TRUE

\* execute: `g.execute().await?` goes on to the next group iff the group was Ok
execute_continues(res) == res.tag = "Ok"

\* FuturesOrdered wraps every output with the index its future was pushed at
OrderWrapper(i, data) == [index |-> i, data |-> data]

\* FuturesOrdered: the index of the output the stream yields next
next_outgoing(coll) == Len(coll) + 1

\* variant of next_unpolled: a future that was polled and is not complete counts
\* as not polled yet
next_unpolled_repoll(stat) ==
    IF \E i \in 1..Len(stat) : stat[i] # "ready"
    THEN CHOOSE i \in 1..Len(stat) : stat[i] # "ready" /\ \A j \in 1..(i - 1) : stat[j] = "ready"
    ELSE 0

\* FuturesOrdered polls the futures in the order they were pushed: the step
\* that is polled for the first time next, 0 when every step was polled
next_unpolled(stat) ==
    IF \E i \in 1..Len(stat) : stat[i] = "new"
    THEN CHOOSE i \in 1..Len(stat) : stat[i] = "new" /\ \A j \in 1..(i - 1) : stat[j] # "new"
    ELSE 0

\* variant of may_complete: a future completes in its first poll or never,
\* its wake-up is lost
may_complete_first_poll(stat, i) ==
    /\ i \in 1..Len(stat)
    /\ stat[i] = "pending"
    /\ next_unpolled(stat) = i + 1

\* variant of may_complete: a future can complete without ever being polled
may_complete_unpolled(stat, i) ==
    /\ i \in 1..Len(stat)
    /\ stat[i] \in {"new", "pending"}

\* a future completes in its first poll, or when it is polled again after a
\* wake-up, which queues it behind the futures not polled yet
may_complete(stat, i) ==
    /\ i \in 1..Len(stat)
    /\ stat[i] = "pending"
    /\ next_unpolled(stat) \in {0, i + 1}

\* variant of drain: outputs leave the stream as they become ready
RECURSIVE drain_unordered(_, _, _, _)
drain_unordered(g, stat, out, coll) ==
    LET seen == {coll[i].index : i \in 1..Len(coll)}
        ready == {n \in 1..Len(g.steps) : stat[n] = "ready" /\ n \notin seen}
    IN IF ready = {}
       THEN coll
       ELSE LET n == CHOOSE m \in ready : \A k \in ready : m <= k
            IN drain_unordered(g, stat, out,
                   Append(coll, OrderWrapper(n, <<g.steps[n].name, out[n]>>)))

\* FuturesOrdered: outputs leave the stream in index order; collect takes
\* every output that is ready in its turn
RECURSIVE drain(_, _, _, _)
drain(g, stat, out, coll) ==
    LET n == next_outgoing(coll)
    IN IF n <= Len(g.steps) /\ stat[n] = "ready"
       THEN drain(g, stat, out, Append(coll, OrderWrapper(n, <<g.steps[n].name, out[n]>>)))
       ELSE coll

\* variant of group_done: a parallel group is left at the first failing output
group_done_failfast(g, s, w, coll) ==
    IF g.parallel
    THEN Len(coll) = Len(g.steps) \/ \E i \in 1..Len(coll) : ~success(coll[i].data[2])
    ELSE (~w /\ s > Len(g.steps))

\* Group::execute has run every step
group_done(g, s, w, coll) ==
    IF g.parallel THEN Len(coll) = Len(g.steps) ELSE (~w /\ s > Len(g.steps))

\* Group::execute: the map it returns
group_result(g, outp, coll) ==
    IF g.parallel
    THEN collect([i \in 1..Len(coll) |-> coll[i].data])
    ELSE outp

VARIABLES
    limit,      \* how many add_dep / add_step / new_group / callback calls a run makes
    otype,      \* the output type O of this builder
    tm,         \* the shared TypeMap's bindings
    errors,     \* the shared Vec<Error> of build-time errors
    stderr,     \* the names add_step printed with eprintln! when it dropped a step
    default,    \* ImperativeStepBuilder::default, the implicit group
    groups,     \* ImperativeStepBuilder::groups
    gb,         \* the GroupBuilder inside a running new_group closure, << >> outside
    pc,         \* "build", "exec" or "done"
    calls,      \* how many add_dep / add_step / before+after_step calls were made
    queue,      \* execute: the local `groups`, default group first
    gi,         \* execute: index in queue of the group being executed
    si,         \* Group::execute, sequential: index of the step of this iteration
    awaiting,   \* Group::execute, sequential: suspended in `fut.await`
    outputs,    \* Group::execute, sequential: the local HashMap
    pstat,      \* Group::execute, parallel: per step "new", "pending" or "ready"
    pout,       \* Group::execute, parallel: per step, the outcome once ready
    collected,  \* Group::execute, parallel: outputs yielded by the ordered stream
    outs,       \* execute: the local `outputs` vector of per-group maps
    result,     \* what execute returned
    trace,      \* callbacks fired and computations started / completed, in order
    ret,        \* the last call made on a TypeMap by itself, and what it returned
    locks       \* how many times the Mutex around the shared TypeMap was locked

bvars == <<limit, otype, tm, errors, stderr, default, groups, gb, calls, ret, locks>>
gvars == <<si, awaiting, outputs, pstat, pout, collected>>
xvars == <<queue, gi, si, awaiting, outputs, pstat, pout, collected, outs, result, trace>>
vars == <<limit, otype, tm, errors, stderr, default, groups, gb, pc, calls, queue, gi, si,
          awaiting, outputs, pstat, pout, collected, outs, result, trace, ret, locks>>

\* a call on a TypeMap: `one` is what bind or get returned, `tuple` what
\* retrieve_from_map returned for a tuple
Call(op, arg, val, one, tuple) ==
    [op |-> op, arg |-> arg, val |-> val, one |-> one, tuple |-> tuple]
NoCall == Call("none", << >>, Boxed("Database", 0), None, None)

\* the state after new_builder(), whatever the output type
Fresh ==
    /\ tm = EmptyMap
    /\ errors = << >>
    /\ stderr = << >>
    /\ default = NewGroup
    /\ groups = << >>
    /\ gb = << >>
    /\ pc = "build"
    /\ calls = [deps |-> 0, steps |-> 0, cbs |-> 0]
    /\ queue = << >>
    /\ gi = 0
    /\ si = 0
    /\ awaiting = FALSE
    /\ outputs = NoOutputs
    /\ pstat = << >>
    /\ pout = << >>
    /\ collected = << >>
    /\ outs = << >>
    /\ result = Pending
    /\ trace = << >>
    /\ ret = NoCall
    /\ locks = 0

\* the state after new_builder()
Constructed ==
    /\ otype \in OutTypes
    /\ Fresh

Init ==
    /\ limit = [deps |-> MaxDeps, steps |-> MaxSteps, groups |-> MaxGroups,
                cbs |-> MaxCallbacks]
    /\ Constructed

InitStore ==
    /\ limit = [deps |-> StoreDeps, steps |-> StoreSteps, groups |-> 0, cbs |-> 0]
    /\ Constructed

InitOrder ==
    /\ limit = [deps |-> 0, steps |-> OrderSteps, groups |-> OrderGroups, cbs |-> 0]
    /\ Constructed

InitDefault ==
    /\ limit = [deps |-> 0, steps |-> DefSteps, groups |-> 0, cbs |-> DefCallbacks]
    /\ Constructed

\* a builder of bool outcomes
InitParallel ==
    /\ limit = [deps |-> 0, steps |-> ParSteps, groups |-> ParGroups, cbs |-> ParCallbacks]
    /\ otype = "bool"
    /\ Fresh

InitTermination ==
    /\ limit = [deps |-> 0, steps |-> TermSteps, groups |-> TermGroups, cbs |-> 0]
    /\ Constructed

\* a builder of bool outcomes
InitPropagate ==
    /\ limit = [deps |-> 0, steps |-> PropSteps, groups |-> PropGroups, cbs |-> PropCallbacks]
    /\ otype = "bool"
    /\ Fresh

InitErrors ==
    /\ limit = [deps |-> ErrDeps, steps |-> ErrSteps, groups |-> ErrGroups, cbs |-> 0]
    /\ Constructed

\* builders of every output type
InitOutcome ==
    /\ limit = [deps |-> 0, steps |-> OutcomeSteps, groups |-> 0, cbs |-> 0]
    /\ otype \in AllOutTypes
    /\ Fresh

InitCallbacks ==
    /\ limit = [deps |-> 0, steps |-> CbSteps, groups |-> CbGroups, cbs |-> CbCallbacks]
    /\ Constructed

\* a TypeMap by itself, TypeMap::new()
InitTypeMap ==
    /\ limit = [deps |-> 0, steps |-> 0, groups |-> 0, cbs |-> 0]
    /\ Constructed

InitExec ==
    /\ limit = [deps |-> 0, steps |-> ExecSteps, groups |-> ExecGroups, cbs |-> 0]
    /\ Constructed

\* ---------------------------------------------------------- registration
\* ImperativeStepBuilder::add_dep; the value passed is told apart from the
\* values of the other calls by the number of the call
BuilderAddDep(ty) ==
    /\ pc = "build" /\ gb = << >>
    /\ calls.deps < limit.deps
    /\ calls' = [calls EXCEPT !.deps = @ + 1]
    /\ tm' = add_dep_tm(tm, Boxed(ty, calls.deps + 1))
    /\ errors' = add_dep_errors(errors, tm, Boxed(ty, calls.deps + 1))
    /\ locks' = locks + 1
    /\ UNCHANGED <<ret, limit, otype, stderr, default, groups, gb, pc>>
    /\ UNCHANGED xvars

\* ImperativeStepBuilder::add_step
BuilderAddStep(name, tys) ==
    /\ pc = "build" /\ gb = << >>
    /\ calls.steps < limit.steps
    /\ calls' = [calls EXCEPT !.steps = @ + 1]
    /\ default' = add_step_group(default, tm, name, tys)
    /\ errors' = add_step_errors(errors, tm, name, tys)
    /\ stderr' = add_step_stderr(stderr, tm, name, tys)
    /\ locks' = locks + 1
    /\ UNCHANGED <<ret, limit, otype, tm, groups, gb, pc>>
    /\ UNCHANGED xvars

\* ImperativeStepBuilder::before_step and ::after_step; a callback is told
\* apart from the others by the number of the call that registered it
BuilderAddCallback(kind) ==
    /\ pc = "build" /\ gb = << >>
    /\ calls.cbs < limit.cbs
    /\ calls' = [calls EXCEPT !.cbs = @ + 1]
    /\ default' = add_callback(default, [kind |-> kind, id |-> calls.cbs + 1])
    /\ UNCHANGED <<ret, locks, limit, otype, tm, errors, stderr, groups, gb, pc>>
    /\ UNCHANGED xvars

\* ImperativeStepBuilder::new_group up to the call of the closure
NewGroupEnter ==
    /\ pc = "build" /\ gb = << >>
    /\ Len(groups) < limit.groups
    /\ gb' = <<NewGroup>>
    /\ UNCHANGED <<ret, locks, limit, otype, tm, errors, stderr, default, groups, pc, calls>>
    /\ UNCHANGED xvars

\* GroupBuilder::add_step, called by the closure
GroupAddStep(name, tys) ==
    /\ pc = "build" /\ gb # << >>
    /\ calls.steps < limit.steps
    /\ calls' = [calls EXCEPT !.steps = @ + 1]
    /\ gb' = <<add_step_group(gb[1], tm, name, tys)>>
    /\ errors' = add_step_errors(errors, tm, name, tys)
    /\ stderr' = add_step_stderr(stderr, tm, name, tys)
    /\ locks' = locks + 1
    /\ UNCHANGED <<ret, limit, otype, tm, default, groups, pc>>
    /\ UNCHANGED xvars

\* GroupBuilder::parallel, called by the closure
GroupParallel ==
    /\ pc = "build" /\ gb # << >>
    /\ gb' = <<parallel(gb[1])>>
    /\ UNCHANGED <<ret, locks, limit, otype, tm, errors, stderr, default, groups, pc, calls>>
    /\ UNCHANGED xvars

\* GroupBuilder::tolerate_failure, called by the closure
GroupTolerateFailure ==
    /\ pc = "build" /\ gb # << >>
    /\ gb' = <<tolerate_failure(gb[1])>>
    /\ UNCHANGED <<ret, locks, limit, otype, tm, errors, stderr, default, groups, pc, calls>>
    /\ UNCHANGED xvars

\* GroupBuilder::before_step and ::after_step, called by the closure
GroupAddCallback(kind) ==
    /\ pc = "build" /\ gb # << >>
    /\ calls.cbs < limit.cbs
    /\ calls' = [calls EXCEPT !.cbs = @ + 1]
    /\ gb' = <<add_callback(gb[1], [kind |-> kind, id |-> calls.cbs + 1])>>
    /\ UNCHANGED <<ret, locks, limit, otype, tm, errors, stderr, default, groups, pc>>
    /\ UNCHANGED xvars

\* ImperativeStepBuilder::new_group after the closure returned
NewGroupReturn ==
    /\ pc = "build" /\ gb # << >>
    /\ groups' = Append(groups, gb[1])
    /\ gb' = << >>
    /\ UNCHANGED <<ret, locks, limit, otype, tm, errors, stderr, default, pc, calls>>
    /\ UNCHANGED xvars

\* ------------------------------------------------- the TypeMap by itself
\* TypeMap::bind called with a value of type ty
TypeMapBind(ty, v) ==
    /\ pc = "build"
    /\ tm' = bind(tm, Boxed(ty, v))
    /\ ret' = Call("bind", <<ty>>, Boxed(ty, v), bindPrev(tm, Boxed(ty, v)), None)
    /\ UNCHANGED <<locks, limit, otype, errors, stderr, default, groups, gb, pc, calls>>
    /\ UNCHANGED xvars

\* TypeMap::get::<T> called for type ty
TypeMapGet(ty) ==
    /\ pc = "build"
    /\ ret' = Call("get", <<ty>>, NoCall.val, get(tm, ty), None)
    /\ UNCHANGED <<locks, limit, otype, tm, errors, stderr, default, groups, gb, pc, calls>>
    /\ UNCHANGED xvars

\* <(F0, .., Fn) as FromTypeMap>::retrieve_from_map called for the tuple tys
TypeMapRetrieve(tys) ==
    /\ pc = "build"
    /\ ret' = Call("retrieve", tys, NoCall.val, None, retrieve_tuple(tm, tys))
    /\ UNCHANGED <<locks, limit, otype, tm, errors, stderr, default, groups, gb, pc, calls>>
    /\ UNCHANGED xvars

\* ------------------------------------------------------------- execution
\* the locals of Group::execute when group g is entered
EnterGroup(g) ==
    /\ si' = 1
    /\ awaiting' = FALSE
    /\ outputs' = NoOutputs
    /\ pstat' = [i \in 1..Len(g.steps) |-> "new"]
    /\ pout' = [i \in 1..Len(g.steps) |-> NoOutcome]
    /\ collected' = << >>

\* ImperativeStepBuilder::execute up to the first group
Execute ==
    /\ pc = "build" /\ gb = << >>
    /\ IF pop(errors) # None
       THEN /\ result' = Err(Unwrap(pop(errors)))
            /\ errors' = SubSeq(errors, 1, Len(errors) - 1)
            /\ pc' = "done"
            /\ UNCHANGED <<queue, gi, gvars>>
       ELSE /\ queue' = execution_order(default, groups)
            /\ gi' = 1
            /\ pc' = "exec"
            /\ EnterGroup(default)
            /\ UNCHANGED <<errors, result>>
    /\ UNCHANGED <<ret, locks, limit, otype, tm, stderr, default, groups, gb, calls, outs, trace>>

\* execute: the loop over the groups gets the current group's result
GroupResult(res) ==
    IF ~execute_continues(res)
    THEN /\ result' = res
         /\ pc' = "done"
         /\ UNCHANGED <<gi, outs, si, outputs, pstat, pout, collected>>
    ELSE /\ outs' = Append(outs, res.map)
         /\ IF gi < Len(queue)
            THEN /\ gi' = gi + 1
                 /\ si' = 1
                 /\ outputs' = NoOutputs
                 /\ pstat' = [i \in 1..Len(queue[gi + 1].steps) |-> "new"]
                 /\ pout' = [i \in 1..Len(queue[gi + 1].steps) |-> NoOutcome]
                 /\ collected' = << >>
                 /\ UNCHANGED <<pc, result>>
            ELSE /\ result' = Ok(flatten_collect(outs'))
                 /\ pc' = "done"
                 /\ UNCHANGED <<gi, si, outputs, pstat, pout, collected>>

\* Group::execute, sequential: one iteration up to `fut.await`
SeqStart ==
    /\ pc = "exec" /\ ~queue[gi].parallel
    /\ ~awaiting /\ si <= Len(queue[gi].steps)
    /\ trace' = trace \o exec_step_begin(queue[gi].callbacks, gi, si)
    /\ awaiting' = TRUE
    /\ UNCHANGED <<bvars, pc, queue, gi, si, outputs, pstat, pout, collected, outs, result>>

\* Group::execute, sequential: the future completes with r, rest of the iteration
SeqFinish(r) ==
    /\ pc = "exec" /\ ~queue[gi].parallel
    /\ awaiting
    /\ trace' = trace \o exec_step_end(queue[gi].callbacks, gi, si, r)
    /\ awaiting' = FALSE
    /\ IF halts(queue[gi], r)
       THEN GroupResult(group_error(queue[gi].steps[si].name, r, outputs))
       ELSE /\ outputs' = Insert(outputs, queue[gi].steps[si].name, r)
            /\ si' = si + 1
            /\ UNCHANGED <<result, pc, gi, pstat, pout, collected, outs>>
    /\ UNCHANGED <<bvars, queue>>

\* Group::execute, parallel: first poll of step i's future
ParStart(i) ==
    /\ pc = "exec" /\ queue[gi].parallel
    /\ i = next_unpolled(pstat)
    /\ trace' = trace \o exec_step_begin(queue[gi].callbacks, gi, i)
    /\ pstat' = [pstat EXCEPT ![i] = "pending"]
    /\ UNCHANGED <<bvars, pc, queue, gi, si, awaiting, outputs, pout, collected, outs, result>>

\* Group::execute, parallel: step i's future completes with r
ParFinish(i, r) ==
    /\ pc = "exec" /\ queue[gi].parallel
    /\ may_complete(pstat, i)
    /\ trace' = trace \o exec_step_end(queue[gi].callbacks, gi, i, r)
    /\ pstat' = [pstat EXCEPT ![i] = "ready"]
    /\ pout' = [pout EXCEPT ![i] = r]
    /\ collected' = drain(queue[gi], pstat', pout', collected)
    /\ UNCHANGED <<bvars, pc, queue, gi, si, awaiting, outputs, outs, result>>

\* Group::execute returns Ok; execute goes to the next group or returns
GroupReturn ==
    /\ pc = "exec"
    /\ group_done(queue[gi], si, awaiting, collected)
    /\ GroupResult(Ok(group_result(queue[gi], outputs, collected)))
    /\ UNCHANGED <<bvars, queue, awaiting, trace>>

\* registration on the builder itself
NextBuilder ==
    \/ \E n \in Names, tys \in ArgLists : BuilderAddStep(n, tys)
    \/ Execute

\* registration of groups
NextGroups ==
    \/ NewGroupEnter
    \/ \E n \in Names, tys \in ArgLists : GroupAddStep(n, tys)
    \/ GroupParallel
    \/ GroupTolerateFailure
    \/ NewGroupReturn

\* registration of callbacks
NextCallbacks ==
    \/ \E k \in {"BeforeStep", "AfterStep"} : BuilderAddCallback(k)
    \/ \E k \in {"BeforeStep", "AfterStep"} : GroupAddCallback(k)

\* the steps of a sequential group
NextSequential ==
    \/ SeqStart
    \/ \E r \in OutcomesOf(otype) : SeqFinish(r)
    \/ GroupReturn

\* the steps of a parallel group
NextParallel ==
    \/ \E i \in 1..Len(pstat) : ParStart(i)
    \/ \E i \in 1..Len(pstat), r \in OutcomesOf(otype) : ParFinish(i, r)

Next ==
    \/ \E ty \in TypeIds : BuilderAddDep(ty)
    \/ NextBuilder
    \/ NextGroups
    \/ NextCallbacks
    \/ NextSequential
    \/ NextParallel

\* a builder that gets dependencies and steps, no groups and no callbacks
NextStore ==
    \/ \E ty \in TypeIds : BuilderAddDep(ty)
    \/ NextBuilder
    \/ NextSequential

\* a builder that gets steps, groups and callbacks, no dependencies
NextCallbacksRun ==
    \/ NextBuilder
    \/ NextGroups
    \/ NextCallbacks
    \/ NextSequential
    \/ NextParallel

\* a builder that gets steps and callbacks, no groups
NextDefault ==
    \/ NextBuilder
    \/ \E k \in {"BeforeStep", "AfterStep"} : BuilderAddCallback(k)
    \/ NextSequential

\* a builder that gets dependencies, steps and groups, no callbacks
NextErrors ==
    \/ \E ty \in TypeIds : BuilderAddDep(ty)
    \/ NextBuilder
    \/ NextGroups
    \/ NextSequential
    \/ NextParallel

\* a builder that gets steps only
NextOutcome ==
    \/ NextBuilder
    \/ NextSequential

\* a TypeMap that gets bind, get and retrieve_from_map calls
NextTypeMap ==
    \/ \E ty \in MapTypeIds, v \in MapVals : TypeMapBind(ty, v)
    \/ \E ty \in MapTypeIds : TypeMapGet(ty)
    \/ \E tys \in TupleLists : TypeMapRetrieve(tys)

\* a builder that gets steps and groups, no dependencies and no callbacks
NextExec ==
    \/ NextBuilder
    \/ NextGroups
    \/ NextSequential
    \/ NextParallel

\* runs with every registration call
Spec == Init /\ [][Next]_vars

\* runs that look at the dependency store
SpecStore == InitStore /\ [][NextStore]_vars

\* runs that look at execution
SpecExec == InitExec /\ [][NextExec]_vars

\* runs that look at the order of the groups
SpecOrder == InitOrder /\ [][NextExec]_vars

\* runs that look at callbacks
SpecCallbacks == InitCallbacks /\ [][NextCallbacksRun]_vars

\* runs of the default group with callbacks
SpecDefault == InitDefault /\ [][NextDefault]_vars

\* runs that look at callbacks around concurrent steps
SpecParallel == InitParallel /\ [][NextCallbacksRun]_vars

\* the caller awaits execute, so the future of a parallel group keeps being
\* polled: FuturesOrdered polls every step for the first time, every step's
\* computation completes at some point, and the collected group returns
ParallelProgress ==
    /\ WF_vars(\E i \in 1..Len(pstat) : ParStart(i))
    /\ \A i \in 1..TermSteps : WF_vars(\E r \in OutcomesOf(otype) : ParFinish(i, r))
    /\ WF_vars(GroupReturn)

\* runs in which an awaited parallel group makes progress
SpecTermination == InitTermination /\ [][NextExec]_vars /\ ParallelProgress

\* runs that look at the builder's callbacks reaching the groups
SpecPropagate == InitPropagate /\ [][NextCallbacksRun]_vars

\* runs that look at the build-time errors
SpecErrors == InitErrors /\ [][NextErrors]_vars

\* runs that look at the outcomes of every output type
SpecOutcome == InitOutcome /\ [][NextOutcome]_vars

\* runs of a TypeMap by itself
SpecTypeMap == InitTypeMap /\ [][NextTypeMap]_vars

TypeOK ==
    /\ pc \in {"build", "exec", "done"}
    /\ locks \in Nat
    /\ Len(groups) <= limit.groups
    /\ Len(gb) <= 1

\* ------------------------------------------------------------ properties
Range(seq) == {seq[i] : i \in DOMAIN seq}
BuildKinds == {"DepResolution", "AddDep"}
RunKinds == {"Step", "UnknownStep"}

\* an outcome that counts as a success: true, or the Ok variant
Succeeded(r) == r.tag \in {"true", "Ok"}

\* positions in the trace of the starts / completions of group g's computations
StartIdx(g) == {k \in DOMAIN trace : trace[k].ev = "start" /\ trace[k].g = g}
EndIdx(g) == {k \in DOMAIN trace : trace[k].ev = "end" /\ trace[k].g = g}
Ended(g, s) == \E k \in EndIdx(g) : trace[k].s = s
EndOutcome(g, s) == trace[CHOOSE k \in EndIdx(g) : trace[k].s = s].r
FailedAt(g, s) == \E k \in EndIdx(g) : trace[k].s = s /\ ~Succeeded(trace[k].r)

\* the groups execute runs, by position in execution order
Executed == IF pc = "build" THEN {} ELSE 1..Len(queue)
StepNames(g) == {queue[g].steps[s].name : s \in 1..Len(queue[g].steps)}
DistinctNames(g) == Cardinality(StepNames(g)) = Len(queue[g].steps)
Sequential(g) == ~queue[g].parallel
NonTolerant(g) == ~queue[g].parallel /\ ~queue[g].tolerate_failure
\* group g returned a map to execute
Returned(g) == g <= Len(outs)
\* execute returned a Step / UnknownStep error out of group g
FailedIn(g) == pc = "done" /\ result.tag = "Err" /\ result.err.kind \in RunKinds /\ gi = g

\* every registered step of a group holds, per argument, the value bound in the store
HoldsBound(g) ==
    \A s \in 1..Len(g.steps) : \A k \in 1..Len(g.steps[s].args) :
        LET a == g.steps[s].args[k]
        IN a.ty \in DOMAIN tm /\ tm[a.ty] = a
AllGroups == <<default>> \o groups \o gb

C2_FirstErrorReturned ==
    [][(pc = "build" /\ pc' # "build" /\ Len(errors) >= 2) =>
            (result' = Err(errors[1]) /\ pc' = "done" /\ trace' = << >>)]_vars

\* C3: add_dep of a type that is already bound records AddDep naming the type
\* and leaves the store as it is; a bound slot never changes afterwards, and
\* every registered step holds the values found in the slots
C3_DuplicateDepRejected ==
    [][/\ \A ty \in TypeIds :
            (BuilderAddDep(ty) /\ ty \in DOMAIN tm) =>
                (tm' = tm /\ errors' = Append(errors, AddDep(ty)))
       /\ \A ty \in DOMAIN tm : ty \in DOMAIN tm' /\ tm'[ty] = tm[ty]
       /\ \A i \in 1..Len(AllGroups') : HoldsBound(AllGroups[i])']_vars

\* the first add_dep bound Database, the second was rejected, the third bound
\* Config, and a step registered after that holds the first call's value
C3_Witness ==
    /\ AddDep("Database") \in Range(errors)
    /\ "Config" \in DOMAIN tm /\ tm["Config"].v = 3
    /\ \E s \in 1..Len(default.steps) :
            default.steps[s].args = <<Boxed("Database", 1), Boxed("Config", 3)>>

\* C4: in a sequential non-tolerant group the computations are started in
\* declared order, each after the one before it completed; while every
\* outcome is a success the group returns no error, and the map it returns
\* has exactly the steps' names as keys, each with a successful outcome of a
\* step of that name; it is what execute returns when no other group has steps
C4_SequentialOrderAndResult ==
    \A g \in Executed : NonTolerant(g) =>
        /\ \A k \in StartIdx(g) :
                /\ Cardinality({j \in StartIdx(g) : j < k}) = trace[k].s - 1
                /\ Cardinality({j \in EndIdx(g) : j < k}) = trace[k].s - 1
        /\ \A k \in EndIdx(g) :
                Cardinality({j \in StartIdx(g) : j < k}) = trace[k].s
        /\ ((\A k \in EndIdx(g) : Succeeded(trace[k].r)) => ~FailedIn(g))
        /\ (Returned(g) =>
                /\ Cardinality(EndIdx(g)) = Len(queue[g].steps)
                /\ DOMAIN outs[g] = StepNames(g)
                /\ \A n \in StepNames(g) :
                        /\ Succeeded(outs[g][n])
                        /\ \E s \in 1..Len(queue[g].steps) :
                                /\ queue[g].steps[s].name = n
                                /\ EndOutcome(g, s) = outs[g][n])
        /\ ((result.tag = "Ok" /\ \A h \in Executed \ {g} : queue[h].steps = << >>)
                => result.map = outs[g])

C4_Witness ==
    /\ pc = "done" /\ result.tag = "Ok"
    /\ Len(queue) = 1 /\ NonTolerant(1)
    /\ Len(queue[1].steps) = 3
    /\ DOMAIN result.map = {"one", "two"}

\* C5: in a sequential non-tolerant group, once a step failed no later step
\* of the group is started: as many computations were started as the failing
\* step's position
C5_HaltsAtFirstFailure ==
    \A g \in Executed : NonTolerant(g) =>
        \A k \in EndIdx(g) : ~Succeeded(trace[k].r) =>
            /\ Cardinality(StartIdx(g)) = trace[k].s
            /\ \A j \in StartIdx(g) : trace[j].s <= trace[k].s

C5_Witness ==
    /\ pc = "done" /\ Len(queue) >= 1
    /\ NonTolerant(1)
    /\ Len(queue[1].steps) = 3
    /\ FailedAt(1, 2)

\* C6: a failing step of a sequential non-tolerant group makes execute return
\* Step(name, cause) with the step's name and the boxed failure value when
\* the outcome has one (Err), UnknownStep(name) when it has none (false); the
\* failing step is the last computation that ran
C6_StepErrorKind ==
    \A g \in Executed : NonTolerant(g) =>
        \A k \in EndIdx(g) : ~Succeeded(trace[k].r) =>
            LET name == queue[g].steps[trace[k].s].name
                r == trace[k].r
            IN /\ r.ty = "result" => result = Err(StepErr(name, BoxError(r.val)))
               /\ r.ty = "bool" => result = Err(UnknownStep(name))
               /\ \A j \in DOMAIN trace : trace[j].ev = "end" => j <= k

C6_Witness ==
    /\ pc = "done"
    /\ result = Err(StepErr("two", BoxError("TestOne")))
    /\ Len(queue) >= 1 /\ NonTolerant(1)
    /\ queue[1].steps[1].name = "one"
    /\ Ended(1, 1) /\ FailedAt(1, 2)

\* C7: after a step of a sequential non-tolerant group failed, nothing of a
\* later group runs, and execute returns an error, not a map
C7_LaterGroupsNeverRun ==
    \A g \in Executed : NonTolerant(g) =>
        ((\E k \in EndIdx(g) : ~Succeeded(trace[k].r)) =>
            /\ \A j \in DOMAIN trace : trace[j].g <= g
            /\ pc = "done"
            /\ result.tag = "Err"
            /\ result.err.kind \in RunKinds)

C7_Witness ==
    /\ pc = "done"
    /\ Len(queue) = 2
    /\ NonTolerant(1)
    /\ FailedAt(1, 1)
    /\ Len(queue[2].steps) >= 1

\* C8: a sequential group with tolerate_failure never makes execute return
\* Step or UnknownStep, returns its map even when one of its steps failed,
\* returns only after every step completed, and, the names being distinct,
\* maps every step's name to that step's outcome
C8_TolerantKeepsEveryOutcome ==
    \A g \in Executed : (Sequential(g) /\ queue[g].tolerate_failure) =>
        /\ ~FailedIn(g)
        /\ ((pc = "done" /\ \E k \in EndIdx(g) : ~Succeeded(trace[k].r)) => Returned(g))
        /\ (Returned(g) =>
                /\ \A s \in 1..Len(queue[g].steps) : Ended(g, s)
                /\ DOMAIN outs[g] = StepNames(g)
                /\ (DistinctNames(g) =>
                        \A s \in 1..Len(queue[g].steps) :
                            outs[g][queue[g].steps[s].name] = EndOutcome(g, s)))

C8_Witness ==
    /\ pc = "done"
    /\ Len(queue) = 2
    /\ Sequential(2) /\ queue[2].tolerate_failure
    /\ Len(queue[2].steps) = 2 /\ DistinctNames(2)
    /\ FailedAt(2, 1)
    /\ Succeeded(result.map[queue[2].steps[2].name])

\* C9: in a parallel group the i-th output collected is the i-th declared
\* step's name and outcome, whatever the order of completion
C9_ParallelDeclaredOrder ==
    \A g \in Executed : (g = gi /\ queue[g].parallel) =>
        \A i \in 1..Len(collected) :
            /\ collected[i].index = i
            /\ Ended(g, i)
            /\ collected[i].data = <<queue[g].steps[i].name, EndOutcome(g, i)>>

\* step 2 completed before step 1, with different outcomes, and both were collected
C9_Witness ==
    /\ pc = "exec" /\ queue[gi].parallel /\ Len(queue[gi].steps) = 3
    /\ Len(collected) >= 2
    /\ \E k1, k2 \in EndIdx(gi) :
            /\ trace[k1].s = 1 /\ trace[k2].s = 2 /\ k2 < k1
            /\ trace[k1].r # trace[k2].r

\* C10: a parallel group never makes execute return Step or UnknownStep,
\* returns only after every step completed, failing ones included, and
\* records every step's outcome under its name (the last declared step of a
\* name when several share it)
C10_ParallelToleratesFailure ==
    \A g \in Executed : queue[g].parallel =>
        /\ ~FailedIn(g)
        /\ (gi = g => \A i \in 1..Len(pstat) :
                (pstat[i] = "ready") = Ended(g, i))
        /\ (Returned(g) =>
                /\ \A s \in 1..Len(queue[g].steps) : Ended(g, s)
                /\ DOMAIN outs[g] = StepNames(g)
                /\ \A s \in 1..Len(queue[g].steps) :
                        (\A t \in (s + 1)..Len(queue[g].steps) :
                                queue[g].steps[t].name # queue[g].steps[s].name)
                            => outs[g][queue[g].steps[s].name] = EndOutcome(g, s))

\* the first step failed, a sibling completed after it, the group returned both
C10_Witness ==
    /\ Len(queue) = 2 /\ queue[2].parallel /\ Returned(2)
    /\ Len(queue[2].steps) = 2 /\ DistinctNames(2)
    /\ \E k1, k2 \in EndIdx(2) :
            /\ trace[k1].s = 1 /\ trace[k2].s = 2 /\ k1 < k2
            /\ ~Succeeded(trace[k1].r)
\* ---------------------------------------------------- callback properties
\* was the computation of step s of group g started
Started(g, s) == \E k \in StartIdx(g) : trace[k].s = s
\* the callbacks registered on the g-th executed group itself
Own(g) == IF g = 1 THEN default.callbacks ELSE groups[g - 1].callbacks
\* the registration numbers of the callbacks of one kind, in list order
Ids(cbs, kind) == [i \in 1..Len(OfKind(cbs, kind)) |-> OfKind(cbs, kind)[i].id]
\* the callbacks of one kind ("before" / "after") fired for step s of group g,
\* in the order they fired
Fired(kind, g, s) ==
    LET evs == SelectSeq(trace, LAMBDA e : e.ev = kind /\ e.g = g /\ e.s = s)
    IN [i \in 1..Len(evs) |-> evs[i].cb]
\* the positions in the trace of those firings
FiredIdx(kind, g, s) ==
    {k \in DOMAIN trace : trace[k].ev = kind /\ trace[k].g = g /\ trace[k].s = s}
\* a sequence of registration numbers, cut down to those of the given callbacks
Among(ids, cbs) == SelectSeq(ids, LAMBDA i : \E c \in Range(cbs) : c.id = i)
StepsOf(g) == 1..Len(queue[g].steps)

\* C11: for every step whose computation was started, the BeforeStep
\* callbacks registered on its group fired once each, in registration order,
\* all before the start; once the computation completed, the group's
\* AfterStep callbacks fired once each, in registration order, all after the
\* completion; nothing fires for a step that was not started
C11_GroupCallbacksBracketStep ==
    \A g \in Executed : \A s \in StepsOf(g) :
        /\ (Started(g, s) =>
                /\ Among(Fired("before", g, s), Own(g)) = Ids(Own(g), "BeforeStep")
                /\ \A k \in FiredIdx("before", g, s), j \in StartIdx(g) :
                        trace[j].s = s => k < j)
        /\ (Ended(g, s) =>
                /\ Among(Fired("after", g, s), Own(g)) = Ids(Own(g), "AfterStep")
                /\ \A k \in FiredIdx("after", g, s), j \in EndIdx(g) :
                        trace[j].s = s => j < k)
        /\ (~Started(g, s) => FiredIdx("before", g, s) = {})
        /\ (~Ended(g, s) => FiredIdx("after", g, s) = {})

\* an explicit group with two BeforeStep callbacks of its own ran a step
C11_Witness ==
    /\ pc = "done" /\ Len(queue) = 2
    /\ Len(Ids(groups[1].callbacks, "BeforeStep")) = 2
    /\ Ended(2, 1)

\* C12: for every started step of every group the builder's BeforeStep
\* callbacks fired once each, and for every completed step its AfterStep
\* callbacks; in an explicit group the callbacks fired are the group's own of
\* that kind followed by the builder's
C12_BuilderCallbacksFireLast ==
    \A g \in Executed : \A s \in StepsOf(g) :
        /\ (Started(g, s) =>
                /\ Among(Fired("before", g, s), default.callbacks)
                        = Ids(default.callbacks, "BeforeStep")
                /\ (g > 1 => Fired("before", g, s)
                        = Ids(Own(g), "BeforeStep") \o Ids(default.callbacks, "BeforeStep")))
        /\ (Ended(g, s) =>
                /\ Among(Fired("after", g, s), default.callbacks)
                        = Ids(default.callbacks, "AfterStep")
                /\ (g > 1 => Fired("after", g, s)
                        = Ids(Own(g), "AfterStep") \o Ids(default.callbacks, "AfterStep")))

\* the builder's AfterStep callback was registered before the group's own,
\* and a step of the group completed
C12_Witness ==
    /\ pc = "done" /\ Len(queue) = 2
    /\ Ended(2, 1)
    /\ Len(Ids(default.callbacks, "AfterStep")) = 1
    /\ Len(Ids(groups[1].callbacks, "AfterStep")) = 1
    /\ default.callbacks[1].id < groups[1].callbacks[1].id
\* ------------------------------------------------ names and group order
\* the last declared step of group g that has name n
LastIn(g, n) ==
    CHOOSE s \in StepsOf(g) :
        /\ queue[g].steps[s].name = n
        /\ \A t \in StepsOf(g) : t > s => queue[g].steps[t].name # n
\* the last group in execution order that has a step named n
LastGroup(n) ==
    CHOOSE g \in Executed :
        /\ n \in StepNames(g)
        /\ \A h \in Executed : h > g => n \notin StepNames(h)
AllNames == UNION {StepNames(g) : g \in Executed}

C14_LaterStepWinsName ==
    /\ \A g \in Executed : Returned(g) =>
            /\ DOMAIN outs[g] = StepNames(g)
            /\ \A n \in StepNames(g) : outs[g][n] = EndOutcome(g, LastIn(g, n))
    /\ Len(SelectSeq(errors, LAMBDA e : e.kind = "DepResolution"))
            + (IF pc = "done" /\ result.err.kind = "DepResolution" THEN 1 ELSE 0)
            = Len(stderr)
    /\ Len(stderr) + Cardinality({<<i, s>> \in (1..Len(AllGroups)) \X (1..limit.steps) :
                                        s <= Len(AllGroups[i].steps)})
            = calls.steps
    /\ \A g \in Executed : FailedIn(g) =>
            \E s \in StepsOf(g) :
                FailedAt(g, s) /\ result.err.arg = queue[g].steps[s].name

\* a sequential group returned the outcome of the second of two steps named
\* alike, which is not the outcome of the first
C14_Witness ==
    /\ Len(queue) = 2 /\ Returned(2) /\ Sequential(2)
    /\ Len(queue[2].steps) = 2 /\ ~DistinctNames(2)
    /\ EndOutcome(2, 1) # EndOutcome(2, 2)
    /\ outs[2][queue[2].steps[1].name] = EndOutcome(2, 2)

\* C15: execute runs the default group, then the explicit groups in the
\* order of the new_group calls: the groups of the events recorded never go
\* down, a group is entered only after the groups before it returned, and
\* during registration add_step on the builder only extends the default
\* group and new_group only extends the list of explicit groups at its end
C15_DefaultThenGroupsInOrder ==
    /\ [](/\ \A j, k \in DOMAIN trace : j < k => trace[j].g <= trace[k].g
          /\ \A k \in DOMAIN trace : trace[k].g <= Len(outs) + 1
          /\ (pc # "build" /\ queue # << >>) =>
                /\ Len(queue) = 1 + Len(groups)
                /\ queue[1].steps = default.steps
                /\ \A i \in 1..Len(groups) : queue[i + 1].steps = groups[i].steps)
    /\ [][(pc = "build" /\ pc' = "build") =>
            /\ Len(groups') >= Len(groups)
            /\ SubSeq(groups', 1, Len(groups)) = groups
            /\ Len(default'.steps) >= Len(default.steps)
            /\ SubSeq(default'.steps, 1, Len(default.steps)) = default.steps]_vars

\* two explicit groups ran one step each, the first registered first
C15_Witness ==
    /\ pc = "done" /\ Len(queue) = 3
    /\ Len(queue[2].steps) = 1 /\ Len(queue[3].steps) = 1
    /\ queue[2].steps[1].name # queue[3].steps[1].name
    /\ Ended(2, 1) /\ Ended(3, 1)
\* ------------------------------------------------- resolution and store
\* is errs the list es with entries added at its end
Extends(errs, es) == Len(errs) >= Len(es) /\ SubSeq(errs, 1, Len(es)) = es

\* C16: add_step, on the builder or on a group builder, resolves against the
\* store as it is at the call: with every
\* argument type bound it appends a step holding the bound values and
\* records nothing; with some argument type unbound it leaves the group as
\* it is and records DepResolution with the step's name; a later add_dep
\* changes neither the steps registered nor the errors recorded earlier
C16_ResolvedAtRegistration ==
    [][/\ \A n \in Names, tys \in ArgLists : BuilderAddStep(n, tys) =>
            IF \A i \in 1..Len(tys) : tys[i] \in DOMAIN tm
            THEN /\ default'.steps
                        = Append(default.steps, Step(n, [i \in 1..Len(tys) |-> tm[tys[i]]]))
                 /\ errors' = errors /\ stderr' = stderr
            ELSE /\ default' = default
                 /\ errors' = Append(errors, DepResolution(n))
                 /\ stderr' = Append(stderr, n)
       /\ \A n \in Names, tys \in ArgLists : GroupAddStep(n, tys) =>
            IF \A i \in 1..Len(tys) : tys[i] \in DOMAIN tm
            THEN /\ gb'[1].steps
                        = Append(gb[1].steps, Step(n, [i \in 1..Len(tys) |-> tm[tys[i]]]))
                 /\ errors' = errors /\ stderr' = stderr
            ELSE /\ gb' = gb
                 /\ errors' = Append(errors, DepResolution(n))
                 /\ stderr' = Append(stderr, n)
       /\ \A ty \in TypeIds : BuilderAddDep(ty) =>
            /\ default' = default /\ groups' = groups /\ stderr' = stderr
            /\ Extends(errors', errors)
            /\ \A i \in (Len(errors) + 1)..Len(errors') : errors'[i].kind = "AddDep"]_vars

\* step "one" was dropped while a type was unbound; both types were bound
\* afterwards, the error is still recorded, no step came back, and a step of
\* the same name registered after the binding holds the bound values
C16_Witness ==
    /\ pc = "build"
    /\ stderr = <<"one">> /\ errors = <<DepResolution("one")>>
    /\ DOMAIN tm = TypeIds
    /\ Len(default.steps) = 1
    /\ default.steps[1] = Step("one", <<tm["Database"], tm["Config"]>>)
\* what a slot of the store holds: the value bound under ty, if any
Slot(bindings, ty) == IF ty \in DOMAIN bindings THEN Some(bindings[ty]) ELSE None

\* C17: after bind of a value, get of the value's type returns that value and
\* get of every other type returns what it returned before; get of a type
\* that no bind was made for returns nothing; a get call returns what the
\* slot holds
C17_BindGetRoundTrip ==
    /\ [][\A ty \in MapTypeIds, v \in MapVals : TypeMapBind(ty, v) =>
            /\ get(tm', ty) = Some(Boxed(ty, v))
            /\ \A o \in MapTypeIds \ {ty} : get(tm', o) = get(tm, o)]_vars
    /\ [](/\ \A ty \in MapTypeIds \ DOMAIN tm : get(tm, ty) = None
          /\ ret.op = "get" => ret.one = Slot(tm, ret.arg[1]))

\* get::<Dep<Config>> returned the value bound last, with a second type
\* bound and a third one not
C17_Witness ==
    /\ ret.op = "get" /\ ret.arg = <<"Config">>
    /\ ret.one = Some(Boxed("Config", 2))
    /\ DOMAIN tm = TypeIds

\* C18: the store holds one value per type identity, each of the type it is
\* filed under; bind returns what the slot of the value's type held before
\* (nothing when it was empty), puts the new value in that slot and leaves
\* the other slots as they are
C18_BindReplacesAndReturnsPrevious ==
    /\ [](/\ DOMAIN tm \subseteq MapTypeIds
          /\ \A k \in DOMAIN tm : tm[k].ty = k)
    /\ [][\A ty \in MapTypeIds, v \in MapVals : TypeMapBind(ty, v) =>
            /\ ret'.one = Slot(tm, ty)
            /\ tm'[ty] = Boxed(ty, v)
            /\ DOMAIN tm' = DOMAIN tm \cup {ty}
            /\ \A o \in DOMAIN tm \ {ty} : tm'[o] = tm[o]]_vars

\* a second bind of a Database dependency returned the first value and left
\* the second in the slot
C18_Witness ==
    /\ ret.op = "bind"
    /\ ret.one = Some(Boxed("Database", 1))
    /\ tm["Database"] = Boxed("Database", 2)

\* C19: resolving a tuple of types returns a tuple iff every element type
\* resolves by itself, and then it is the tuple of the elements' values in
\* declared order; otherwise it returns nothing; the empty tuple resolves
C19_TupleResolvesIffAll ==
    \A tys \in TupleLists :
        LET each == [i \in 1..Len(tys) |-> retrieve_from_map(tm, tys[i])]
            whole == IF ret.op = "retrieve" /\ ret.arg = tys
                     THEN ret.tuple
                     ELSE retrieve_tuple(tm, tys)
        IN /\ (whole # None) = (\A i \in 1..Len(tys) : each[i] # None)
           /\ (whole # None => whole = Some([i \in 1..Len(tys) |-> Unwrap(each[i])]))
           /\ (tys = << >> => whole = Some(<< >>))

\* a pair was asked for with its first type bound and its second not: nothing
C19_Witness ==
    /\ ret.op = "retrieve" /\ ret.arg = <<"Database", "Config">>
    /\ ret.tuple = None
    /\ DOMAIN tm = {"Database"}

\* C20: resolving one dependency type returns the value in the slot of just
\* that type, nothing when that slot is empty whatever the other slots
\* hold, and leaves the store as it is
C20_DepResolvesExactType ==
    /\ [](\A ty \in TypeIds : retrieve_from_map(tm, ty) = Slot(tm, ty))
    /\ [][\A tys \in TupleLists : TypeMapRetrieve(tys) =>
            /\ tm' = tm
            /\ (Len(tys) = 1 => ret'.tuple =
                    (IF tys[1] \in DOMAIN tm THEN Some(<<tm[tys[1]]>>) ELSE None))]_vars

\* Dep<Database> resolved to the value bound for it while its payload type
\* holds another value
C20_Witness ==
    /\ ret.op = "retrieve" /\ ret.arg = <<"Database">>
    /\ ret.tuple = Some(<<Boxed("Database", 2)>>)
    /\ "Arc<Database>" \in DOMAIN tm /\ tm["Arc<Database>"].v = 1
\* ------------------------------------------------------------- outcomes
\* the outcomes the claim counts as failures, and those among them that
\* carry a cause
FailingOutcome(r) ==
    \/ r.ty = "bool" /\ r.tag = "false"
    \/ r.ty = "result" /\ r.tag = "Err"
    \/ r.ty \in AlwaysFail
CauseOf(r) == IF FailingOutcome(r) /\ r.ty # "bool" THEN Some(BoxError(r.val)) ELSE None

\* C21: for every value of every output type, success is false exactly for
\* boolean false, the Err variant, io::Error and boxed errors, and error is
\* the boxed failure value for the last three and nothing otherwise; a step
\* that completes with a failing outcome makes execute return Step with that
\* cause, or UnknownStep when there is none, and a returned map holds no
\* failing outcome
C21_OutcomeClassification ==
    /\ \A r \in OutcomesOf(otype) :
            /\ success(r) = ~FailingOutcome(r)
            /\ error(r) = CauseOf(r)
    /\ \A k \in EndIdx(1) :
            LET r == trace[k].r
                name == queue[1].steps[trace[k].s].name
            IN FailingOutcome(r) =>
                    /\ pc = "done"
                    /\ result = Err(IF CauseOf(r) # None
                                    THEN StepErr(name, Unwrap(CauseOf(r)))
                                    ELSE UnknownStep(name))
    /\ (pc = "done" /\ result.tag = "Ok") =>
            \A n \in DOMAIN result.map : ~FailingOutcome(result.map[n])

\* a step returning std::io::Error made execute return Step with that error
C21_Witness ==
    /\ otype = "io::Error"
    /\ pc = "done"
    /\ result = Err(StepErr("one", BoxError("NotFound")))
\* ----------------------------------------------------- build-time errors
Resolves(tys) == \A i \in 1..Len(tys) : tys[i] \in DOMAIN tm

\* C22: one error list takes, at its end and in call order, AddDep from
\* add_dep on the builder and DepResolution from add_step on the builder and
\* on a group builder; no registration call removes or moves an entry; with
\* errors recorded, add_dep of an unbound type still binds and add_step with
\* bound arguments still registers; execute with an error recorded returns
\* one of the recorded errors with no group entered
C22_ErrorsSharedAndOrdered ==
    [][/\ \A ty \in TypeIds : BuilderAddDep(ty) =>
            IF ty \in DOMAIN tm
            THEN errors' = Append(errors, AddDep(ty)) /\ tm' = tm
            ELSE errors' = errors /\ DOMAIN tm' = DOMAIN tm \cup {ty}
       /\ \A n \in Names, tys \in ArgLists : BuilderAddStep(n, tys) =>
            IF Resolves(tys)
            THEN errors' = errors /\ Len(default'.steps) = Len(default.steps) + 1
            ELSE errors' = Append(errors, DepResolution(n)) /\ default' = default
       /\ \A n \in Names, tys \in ArgLists : GroupAddStep(n, tys) =>
            IF Resolves(tys)
            THEN errors' = errors /\ Len(gb'[1].steps) = Len(gb[1].steps) + 1
            ELSE errors' = Append(errors, DepResolution(n)) /\ gb' = gb
       /\ (pc = "build" /\ pc' = "build") => Extends(errors', errors)
       /\ (pc = "build" /\ pc' # "build" /\ errors # << >>) =>
            /\ pc' = "done"
            /\ result'.tag = "Err" /\ result'.err \in Range(errors)
            /\ queue' = << >> /\ trace' = << >>]_vars

\* a step was dropped and, later, add_dep of a bound type was rejected: the
\* list holds both errors in call order, the first value bound is still in
\* the store and a group was registered
C22_Witness ==
    /\ pc = "build"
    /\ errors = <<DepResolution("one"), AddDep("Database")>>
    /\ Len(groups) = 1 /\ default.steps = << >>
    /\ DOMAIN tm = {"Database"} /\ tm["Database"].v = 1

\* the positions in the trace of every event of step s of group g
EventIdx(g, s) == {k \in DOMAIN trace : trace[k].g = g /\ trace[k].s = s}

\* C23: when a step of a sequential group without tolerate_failure completed
\* with a failing outcome, every AfterStep callback of the group fired for
\* that step, once, in list order, after the completion and with the failing
\* outcome; execute has returned the Step / UnknownStep error of that step;
\* and nothing, no BeforeStep callback in particular, fired for a later step
C23_AfterCallbacksOfFailingStep ==
    \A g \in Executed : \A s \in StepsOf(g) :
        (NonTolerant(g) /\ FailedAt(g, s)) =>
            /\ Fired("after", g, s) = Ids(queue[g].callbacks, "AfterStep")
            /\ \A k \in FiredIdx("after", g, s) :
                    /\ trace[k].r = EndOutcome(g, s)
                    /\ \A j \in EndIdx(g) : trace[j].s = s => j < k
            /\ pc = "done"
            /\ result = Err(step_error(queue[g].steps[s].name, EndOutcome(g, s)))
            /\ result.err.kind \in RunKinds
            /\ \A t \in StepsOf(g) : t > s => EventIdx(g, t) = {}

\* the first of two steps of the default group failed with both kinds of
\* callback registered: the AfterStep callback fired for it
C23_Witness ==
    /\ pc = "done" /\ queue # << >> /\ Len(queue[1].steps) = 2
    /\ FailedAt(1, 1)
    /\ Len(Ids(queue[1].callbacks, "BeforeStep")) = 1
    /\ Len(Fired("after", 1, 1)) = 1

\* C24: in a sequential group the trace is ordered by step: every event of a
\* step (BeforeStep callbacks, start, completion, AfterStep callbacks) comes
\* before every event of a later step, and when anything happened for a step
\* the step before it has completed with all its callbacks fired
C24_SequentialStepsDoNotInterleave ==
    \A g \in Executed : Sequential(g) =>
        /\ \A j, k \in DOMAIN trace :
                (trace[j].g = g /\ trace[k].g = g /\ trace[j].s < trace[k].s) => j < k
        /\ \A s \in StepsOf(g) : (s > 1 /\ EventIdx(g, s) # {}) =>
                /\ Fired("before", g, s - 1) = Ids(queue[g].callbacks, "BeforeStep")
                /\ Ended(g, s - 1)
                /\ Fired("after", g, s - 1) = Ids(queue[g].callbacks, "AfterStep")

\* two steps of the default group ran to completion with one callback of
\* each kind registered
C24_Witness ==
    /\ pc = "done" /\ queue # << >> /\ Len(queue[1].steps) = 2
    /\ Len(Fired("before", 1, 2)) = 1
    /\ Len(Fired("after", 1, 1)) = 1
    /\ Ended(1, 2)

\* C25: in a parallel group, whatever the order in which the computations
\* start and complete, every started step had the group's BeforeStep
\* callbacks fired for it, once each in list order, before its start; every
\* completed step was started before, and had the group's AfterStep callbacks
\* fired for it after its completion, once each in list order, with its own
\* outcome; nothing fires for a step that did not get that far; and an
\* outcome is in the result collection only when the step's AfterStep
\* callbacks have all fired
C25_ParallelStepsKeepBracketing ==
    \A g \in Executed : queue[g].parallel =>
        /\ \A s \in StepsOf(g) :
            /\ (Started(g, s) =>
                    /\ Fired("before", g, s) = Ids(queue[g].callbacks, "BeforeStep")
                    /\ \A k \in FiredIdx("before", g, s), j \in StartIdx(g) :
                            trace[j].s = s => k < j)
            /\ (Ended(g, s) =>
                    /\ Started(g, s)
                    /\ \A j \in StartIdx(g), k \in EndIdx(g) :
                            (trace[j].s = s /\ trace[k].s = s) => j < k
                    /\ Fired("after", g, s) = Ids(queue[g].callbacks, "AfterStep")
                    /\ \A k \in FiredIdx("after", g, s) :
                            /\ trace[k].r = EndOutcome(g, s)
                            /\ \A j \in EndIdx(g) : trace[j].s = s => j < k)
            /\ (~Started(g, s) => EventIdx(g, s) = {})
            /\ (~Ended(g, s) => FiredIdx("after", g, s) = {})
        /\ (g = gi => \A i \in DOMAIN collected :
                LET t == collected[i].index
                IN /\ Ended(g, t)
                   /\ collected[i].data = <<queue[g].steps[t].name, EndOutcome(g, t)>>
                   /\ Fired("after", g, t) = Ids(queue[g].callbacks, "AfterStep"))
        /\ (Returned(g) => \A s \in StepsOf(g) : Ended(g, s))

\* in a parallel group of two steps the second step completed and got its
\* AfterStep callback while the first, started earlier, is still running
C25_Witness ==
    /\ pc = "exec" /\ gi = 2 /\ queue[2].parallel
    /\ Len(queue[2].steps) = 2
    /\ Started(2, 1) /\ ~Ended(2, 1)
    /\ Ended(2, 2) /\ Len(Fired("after", 2, 2)) = 1
    /\ collected = << >>

\* C26: once execute has entered a parallel group, the group returns its map
\* to execute at some later point, and execute itself returns when the group
\* is the last one; a parallel group that returned has started and completed
\* every one of its steps and returned an entry for every step name
C26_ParallelGroupTerminates ==
    /\ \A g \in 1..(TermGroups + 1) :
            (pc = "exec" /\ gi = g /\ queue[g].parallel) ~> Returned(g)
    /\ [](\A g \in Executed : (queue[g].parallel /\ Returned(g)) =>
            /\ \A s \in StepsOf(g) : Started(g, s) /\ Ended(g, s)
            /\ DOMAIN outs[g] = StepNames(g)
            /\ (g = Len(queue) => pc = "done" /\ result.tag = "Ok"))

\* execute returned Ok after a parallel group of two steps in which the
\* second step completed before the first
C26_Witness ==
    /\ pc = "done" /\ result.tag = "Ok"
    /\ Len(queue) = 2 /\ queue[2].parallel /\ Len(queue[2].steps) = 2
    /\ Returned(2)
    /\ \E j, k \in EndIdx(2) : trace[j].s = 2 /\ trace[k].s = 1 /\ j < k

\* how often the computation of step s of group g was started / completed
Starts(g, s) == Cardinality({k \in StartIdx(g) : trace[k].s = s})
Ends(g, s) == Cardinality({k \in EndIdx(g) : trace[k].s = s})

\* C27: the computation of a step is started at most once and completes at
\* most once, and never completes without having been started; the groups
\* execute runs hold exactly the steps that were registered; and when execute
\* returns a map, every step of every group was started once and completed
\* once
C27_EachStepDrivenOnce ==
    /\ \A g \in Executed : \A s \in StepsOf(g) :
            Starts(g, s) <= 1 /\ Ends(g, s) <= Starts(g, s)
    /\ \A k \in DOMAIN trace :
            trace[k].g \in Executed /\ trace[k].s \in StepsOf(trace[k].g)
    /\ \A g \in Executed :
            queue[g].steps = (IF g = 1 THEN default.steps ELSE groups[g - 1].steps)
    /\ (pc = "done" /\ result.tag = "Ok") =>
            /\ Len(queue) = 1 + Len(groups)
            /\ \A g \in Executed : \A s \in StepsOf(g) : Starts(g, s) = 1 /\ Ends(g, s) = 1

\* execute returned a map after a sequential default group of one step and a
\* parallel group of two steps
C27_Witness ==
    /\ pc = "done" /\ result.tag = "Ok"
    /\ Len(queue) = 2 /\ Len(queue[1].steps) = 1
    /\ queue[2].parallel /\ Len(queue[2].steps) = 2
    /\ Starts(1, 1) = 1 /\ Ends(2, 2) = 1

\* C28: the store's bindings change only in an add_dep call on the builder
\* during registration, which binds a type that was not bound; every other
\* step leaves the bindings as they are, and no binding is ever replaced or
\* removed; the store's mutex is locked once per add_dep and add_step call
\* and by nothing else, never once execute has been called
C28_StoreChangedOnlyByAddDep ==
    [][ /\ (tm' # tm \/ locks' # locks) => (pc = "build" /\ pc' = "build")
        /\ tm' # tm =>
                /\ gb = << >> /\ calls'.deps = calls.deps + 1
                /\ \E ty \in TypeIds :
                        ty \notin DOMAIN tm /\ tm' = bind(tm, Boxed(ty, calls'.deps))
        /\ calls'.deps = calls.deps => tm' = tm
        /\ \A ty \in DOMAIN tm : ty \in DOMAIN tm' /\ tm'[ty] = tm[ty]
        /\ locks' # locks =>
                /\ locks' = locks + 1
                /\ calls'.deps + calls'.steps = calls.deps + calls.steps + 1
        /\ (groups' # groups \/ gb' # gb \/ default' # default) => tm' = tm
      ]_vars

\* execute returned a map for a builder with two dependencies and a group
\* holding a step; the mutex was locked by the three registration calls
C28_Witness ==
    /\ pc = "done" /\ result.tag = "Ok"
    /\ Cardinality(DOMAIN tm) = 2
    /\ Len(groups) = 1 /\ Len(groups[1].steps) = 1
    /\ locks = 3

ErrorKinds == {"DepResolution", "AddDep", "Step", "UnknownStep", "Group"}

\* C30: an error returned by execute is of kind DepResolution, AddDep, Step or
\* UnknownStep, never of kind Group: the accumulated build-time errors are
\* DepResolution or AddDep, and an error returned out of a group, the default
\* one or an explicit one, is Step (with a cause) or UnknownStep (without)
C30_GroupErrorNeverReturned ==
    /\ \A i \in DOMAIN errors :
            errors[i].kind \in BuildKinds
    /\ (pc = "done" /\ result.tag = "Err") =>
            /\ result.err.kind \in ErrorKinds \ {"Group"}
            /\ (trace = << >> => result.err.kind \in BuildKinds)
            /\ (trace # << >> =>
                    /\ result.err.kind \in RunKinds
                    /\ result.err.arg = queue[gi].steps[si].name
                    /\ (result.err.kind = "Step") = (result.err.cause # None))
    /\ pc # "done" => result = Pending

\* a step of an explicit group failed with a cause and execute returned it
\* as a Step error
C30_Witness ==
    /\ pc = "done" /\ gi = 2
    /\ result.tag = "Err" /\ result.err.kind = "Step"
    /\ FailedAt(2, 1)

\* how often callback number id fired, as the given kind of event, for step s
\* of group g / for any step
FiredFor(kind, id, g, s) ==
    Cardinality({k \in FiredIdx(kind, g, s) : trace[k].cb = id})
FiredTimes(kind, id) ==
    Cardinality({k \in DOMAIN trace : trace[k].ev = kind /\ trace[k].cb = id})
\* the steps of all groups execute runs
RECURSIVE StepCount(_)
StepCount(gs) == IF gs = << >> THEN 0 ELSE Len(Head(gs).steps) + StepCount(Tail(gs))
TotalSteps == Len(default.steps) + StepCount(groups)

\* C31: a callback registered on the builder fires exactly once for every
\* started (BeforeStep) or completed (AfterStep) step of the default group
\* and of every explicit group, whether the callback was registered before
\* or after the group's own callbacks, that is, before or after the group
\* was defined; when execute returns a map it has fired as many times as
\* there are steps
C31_BuilderCallbackReachesEveryStep ==
    \A i \in DOMAIN default.callbacks :
        LET c == default.callbacks[i]
            kind == IF c.kind = "BeforeStep" THEN "before" ELSE "after"
        IN /\ \A g \in Executed : \A s \in StepsOf(g) :
                FiredFor(kind, c.id, g, s)
                    = IF (IF kind = "before" THEN Started(g, s) ELSE Ended(g, s)) THEN 1 ELSE 0
           /\ (pc = "done" /\ result.tag = "Ok") => FiredTimes(kind, c.id) = TotalSteps

\* the group's own callback was registered first, so the group was defined
\* before the builder's callback was registered; the builder's callback
\* fired for the group's step all the same
C31_Witness ==
    /\ pc = "done" /\ result.tag = "Ok"
    /\ Len(groups) = 1 /\ Len(groups[1].steps) = 1
    /\ Len(groups[1].callbacks) = 1 /\ groups[1].callbacks[1].id = 1
    /\ Len(default.callbacks) = 1 /\ default.callbacks[1].id = 2
    /\ FiredTimes(IF default.callbacks[1].kind = "BeforeStep" THEN "before" ELSE "after", 2) = 1

\* C32: when execute returned a Step / UnknownStep error for step s of group
\* g, what it returned holds that error and no outcome at all, though every
\* earlier group returned its map to execute and every earlier step ran to
\* completion, with the AfterStep callbacks of its group fired for it
C32_NoPartialResult ==
    \A g \in Executed : \A s \in StepsOf(g) :
        (FailedIn(g) /\ si = s) =>
            /\ result = Err(step_error(queue[g].steps[s].name, EndOutcome(g, s)))
            /\ result.map = NoOutputs
            /\ Len(outs) = g - 1
            /\ \A h \in 1..(g - 1) : DOMAIN outs[h] = StepNames(h)
            /\ \A t \in 1..(s - 1) : queue[g].steps[t].name \in DOMAIN outputs
            /\ \A h \in 1..g : \A t \in StepsOf(h) : (h < g \/ t < s) =>
                    /\ Ended(h, t)
                    /\ Fired("after", h, t) = Ids(queue[h].callbacks, "AfterStep")

\* the default group returned a map with an entry, then the step of an
\* explicit group failed and execute returned the error alone
C32_Witness ==
    /\ pc = "done" /\ FailedIn(2)
    /\ Len(outs) = 1 /\ DOMAIN outs[1] # {}
    /\ result.map = NoOutputs

\* the names of the steps held by the builder's default group and its
\* explicit groups
Registered ==
    {default.steps[s].name : s \in DOMAIN default.steps}
        \cup UNION {{groups[i].steps[s].name : s \in DOMAIN groups[i].steps} :
                        i \in DOMAIN groups}

\* C33: when execute returned a map, its keys are the names of the steps
\* held by the default group and the explicit groups, no more and no fewer,
\* and no step was dropped at registration; with no step at all the map is
\* empty
C33_ResultKeysAreRegisteredNames ==
    (pc = "done" /\ result.tag = "Ok") =>
        /\ DOMAIN result.map = Registered
        /\ errors = << >> /\ stderr = << >>
        /\ TotalSteps = calls.steps
        /\ (TotalSteps = 0 => result = Ok(NoOutputs))

\* execute returned a map with both names, one from the default group and
\* one from the second of two explicit groups, the first being empty
C33_Witness ==
    /\ pc = "done" /\ result.tag = "Ok"
    /\ Len(groups) = 2 /\ groups[1].steps = << >>
    /\ Len(default.steps) = 1 /\ Len(groups[2].steps) = 1
    /\ DOMAIN result.map = {"one", "two"}
====
